---- MODULE Spec2Model ----
(***************************************************************************)
(* Model of the multi-agent collaboration graph of                         *)
(* multi-agent-collaboration_Github_v1.ipynb: two agent nodes ("assistant" *)
(* and "Chart Generator"), one tool node ("call_tool"), the three-way      *)
(* router and the sender-keyed edge that leads back from the tool node.    *)
(*                                                                         *)
(* Text is modelled as a sequence of words, so that the substring test of  *)
(* the router and the f-strings of the tool node are computed, not         *)
(* assumed.  The language model and the external tools are inputs: every   *)
(* reply and every tool outcome is drawn from a small set.                 *)
(***************************************************************************)
EXTENDS Integers, Sequences, FiniteSets, TLC

\* Number of node executions explored by Spec.
MaxSteps == 6

\* {"recursion_limit": 150}: maximum number of steps to take in the graph.
recursion_limit == 150

END == "__end__"

Agents == {"assistant", "Chart Generator"}

Nodes == Agents \cup {"call_tool"}

-----------------------------------------------------------------------------
(* Text *)

\* The words the router looks for, "FINAL ANSWER".
FINAL_ANSWER == <<"FINAL", "ANSWER">>

\* Python's `needle in hay` on strings: needle occurs as a contiguous part.
Contains(needle, hay) ==
    \E i \in 0..(Len(hay) - Len(needle)) :
        SubSeq(hay, i + 1, i + Len(needle)) = needle

\* A bug a router could have: str.startswith instead of `in`.
StartsWith(needle, hay) ==
    /\ Len(needle) <= Len(hay)
    /\ SubSeq(hay, 1, Len(needle)) = needle

-----------------------------------------------------------------------------
(* Messages *)

\* additional_kwargs of a message that carries nothing.
NoKwargs == [k \in {} |-> k]

FunctionCall(name, arguments) ==
    [function_call |-> [name |-> name, arguments |-> arguments]]

HumanMessage(content, additional_kwargs, name) ==
    [type |-> "human", content |-> content,
     additional_kwargs |-> additional_kwargs, name |-> name]

AIMessage(content, additional_kwargs) ==
    [type |-> "ai", content |-> content,
     additional_kwargs |-> additional_kwargs, name |-> "None"]

FunctionMessage(content, name) ==
    [type |-> "function", content |-> content,
     additional_kwargs |-> NoKwargs, name |-> name]

\* The contents of the first message given to graph.stream.
InitialContents == {<<"Fetch", "GDP">>, <<"FINAL", "ANSWER", "please">>}

\* The serialized arguments a model may put in a function call.
ArgsArg1 == <<"{", "__arg1", ":", "print(1)", "}">>
ArgsQuery == <<"{", "query", ":", "UK GDP", "}">>
ArgsTwo == <<"{", "__arg1", ":", "print(1)", ",", "code", ":", "print(2)", "}">>
ArgsBroken == <<"{", "code", ":">>

\* What the language model may answer to an agent's prompt.
AgentReplies ==
    { AIMessage(<<"some", "data">>, NoKwargs),
      AIMessage(<<"FINAL", "ANSWER", "42">>, NoKwargs),
      AIMessage(<<"the", "FINAL", "ANSWER">>, NoKwargs),
      AIMessage(<<"FINAL", "draft", "ANSWER">>, NoKwargs),
      AIMessage(<<"FINAL", "ANSWER">>, FunctionCall("python_repl", ArgsArg1)),
      AIMessage(<<>>, FunctionCall("tavily_search_results_json", ArgsQuery)),
      AIMessage(<<>>, FunctionCall("python_repl", ArgsTwo)),
      AIMessage(<<>>, FunctionCall("python_repl", ArgsBroken)),
      FunctionMessage(<<"FINAL", "ANSWER", "relayed">>, "python_repl") }

\* The replies of a model that uses no tool.
LoopReplies ==
    { AIMessage(<<"some", "data">>, NoKwargs),
      AIMessage(<<"FINAL", "ANSWER", "42">>, NoKwargs) }

\* What running a tool (or the code given to the REPL) may do.
Outcomes == {"ok", "fail"}

-----------------------------------------------------------------------------
(* The tools *)

\* The structural tokens of a serialized JSON object.
Structural == {"{", "}", ":", ","}

JSONDecodeError == [ok |-> FALSE, kind |-> "JSONDecodeError", value |-> NoKwargs]

\* The members  key : value , key : value ... }  of an object, from token i on;
\* as in Python, a repeated key keeps its last value.
RECURSIVE ParseMembers(_, _, _)
ParseMembers(toks, i, acc) ==
    IF i + 3 > Len(toks) THEN JSONDecodeError
    ELSE IF \/ toks[i] \in Structural
            \/ toks[i + 1] # ":"
            \/ toks[i + 2] \in Structural THEN JSONDecodeError
    ELSE LET acc2 == [k \in (DOMAIN acc) \cup {toks[i]} |->
                          IF k = toks[i] THEN toks[i + 2] ELSE acc[k]]
         IN  IF toks[i + 3] = "}"
             THEN IF i + 3 = Len(toks)
                  THEN [ok |-> TRUE, kind |-> "dict", value |-> acc2]
                  ELSE JSONDecodeError
             ELSE IF toks[i + 3] = ","
                  THEN ParseMembers(toks, i + 4, acc2)
                  ELSE JSONDecodeError

\* json.loads on the arguments of a function call: a dict, or an exception.
json_loads(toks) ==
    IF Len(toks) < 2 \/ toks[1] # "{" THEN JSONDecodeError
    ELSE IF Len(toks) = 2
         THEN IF toks[2] = "}"
              THEN [ok |-> TRUE, kind |-> "dict", value |-> NoKwargs]
              ELSE JSONDecodeError
         ELSE ParseMembers(toks, 2, NoKwargs)

\* python_repl that leaves the code out of its answer.
python_repl_without_code(code, outcome) ==
    IF outcome = "fail"
    THEN <<"Failed", "to", "execute.", "Error:", "Exception()">>
    ELSE <<"Succesfully", "executed:", "Stdout:", "1">>

\* python_repl: whatever running the code does, a string is returned.
python_repl(code, outcome) ==
    IF outcome = "fail"
    THEN <<"Failed", "to", "execute.", "Error:", "Exception()">>
    ELSE <<"Succesfully", "executed:", code, "Stdout:", "1">>

\* tool_executor.invoke(action).  python_repl is this notebook's function; the
\* search tool and the executor's handling of any other call are external, and
\* may return a text or raise.
tool_executor_invoke(tool_name, input, outcome) ==
    IF tool_name = "python_repl" /\ input.kind = "str"
    THEN [raised |-> FALSE, response |-> python_repl(input.value, outcome)]
    ELSE IF outcome = "fail"
         THEN [raised |-> TRUE, response |-> <<>>]
         ELSE [raised |-> FALSE, response |-> <<"[results]">>]

\* What a node returns when an exception leaves it, with the calls of
\* tool_executor.invoke it has made before.
Raised(calls) == [raised |-> TRUE, update |-> NoKwargs, calls |-> calls]

\* An unwrapping that takes the first value of any one-key object.
ToolInputAnyKey(obj) ==
    IF Cardinality(DOMAIN obj) = 1
    THEN [kind |-> "str", value |-> obj[CHOOSE k \in DOMAIN obj : TRUE]]
    ELSE [kind |-> "dict", value |-> obj]

\* "We can pass single-arg inputs by value": an object whose only key is
\* __arg1 is replaced by that key's value, any other object is passed as it is.
ToolInput(obj) ==
    IF Cardinality(DOMAIN obj) = 1 /\ "__arg1" \in DOMAIN obj
    THEN [kind |-> "str", value |-> obj["__arg1"]]
    ELSE [kind |-> "dict", value |-> obj]

ToolInvocation(tool, tool_input) == [tool |-> tool, tool_input |-> tool_input]

\* tool_node whose FunctionMessage lacks the tool's name in its content.
tool_node_bare_content(state, outcome) ==
    LET messages == state.messages
        last_message == messages[Len(messages)]
        parsed == json_loads(last_message.additional_kwargs.function_call.arguments)
    IN  IF ~parsed.ok THEN Raised(<<>>)
        ELSE
        LET tool_input == ToolInput(parsed.value)
            tool_name == last_message.additional_kwargs.function_call.name
            action == ToolInvocation(tool_name, tool_input)
            invoked == tool_executor_invoke(action.tool, action.tool_input, outcome)
            call == [kind |-> "tool", action |-> action, outcome |-> outcome,
                     raised |-> invoked.raised, response |-> invoked.response]
        IN  IF invoked.raised THEN Raised(<<call>>)
            ELSE [raised |-> FALSE,
                  update |-> [messages |->
                      << FunctionMessage(invoked.response, action.tool) >>],
                  calls |-> <<call>>]

\* tool_node: deserialize the arguments, unwrap a lone __arg1, run the tool and
\* return its answer as one FunctionMessage (and no sender).
tool_node(state, outcome) ==
    LET messages == state.messages
        last_message == messages[Len(messages)]
        parsed == json_loads(last_message.additional_kwargs.function_call.arguments)
    IN  IF ~parsed.ok THEN Raised(<<>>)
        ELSE
        LET tool_input == ToolInput(parsed.value)
            tool_name == last_message.additional_kwargs.function_call.name
            action == ToolInvocation(tool_name, tool_input)
            invoked == tool_executor_invoke(action.tool, action.tool_input, outcome)
            call == [kind |-> "tool", action |-> action, outcome |-> outcome,
                     raised |-> invoked.raised, response |-> invoked.response]
        IN  IF invoked.raised THEN Raised(<<call>>)
            ELSE [raised |-> FALSE,
                  update |-> [messages |->
                      << FunctionMessage(<<tool_name, "response:">> \o invoked.response,
                                         action.tool) >>],
                  calls |-> <<call>>]

-----------------------------------------------------------------------------
(* The agents *)

\* agent_node with the sender hard-wired (a bug of a copied node).
agent_node_fixed_sender(state, result, name) ==
    [messages |-> << IF result.type = "function" THEN result
                     ELSE HumanMessage(result.content, result.additional_kwargs, name) >>,
     sender |-> "assistant"]

\* agent_node that keeps the text of the reply and drops its additional_kwargs.
agent_node_text_only(state, result, name) ==
    [messages |-> << IF result.type = "function" THEN result
                     ELSE HumanMessage(result.content, NoKwargs, name) >>,
     sender |-> name]

\* agent_node: the model's reply, re-tagged as a HumanMessage with the node's
\* name unless it is a FunctionMessage, and the node's name as sender.
agent_node(state, result, name) ==
    [messages |-> << IF result.type = "function" THEN result
                     ELSE HumanMessage(result.content, result.additional_kwargs, name) >>,
     sender |-> name]

-----------------------------------------------------------------------------
(* The graph *)

\* router with its two tests in the other order.
router_text_first(state) ==
    LET last_message == state.messages[Len(state.messages)]
    IN  IF Contains(FINAL_ANSWER, last_message.content) THEN "end"
        ELSE IF "function_call" \in DOMAIN last_message.additional_kwargs THEN "call_tool"
        ELSE "continue"

\* router that accepts FINAL ANSWER only as a prefix.
router_prefix(state) ==
    LET last_message == state.messages[Len(state.messages)]
    IN  IF "function_call" \in DOMAIN last_message.additional_kwargs THEN "call_tool"
        ELSE IF StartsWith(FINAL_ANSWER, last_message.content) THEN "end"
        ELSE "continue"

router(state) ==
    LET last_message == state.messages[Len(state.messages)]
    IN  IF "function_call" \in DOMAIN last_message.additional_kwargs THEN "call_tool"
        ELSE IF Contains(FINAL_ANSWER, last_message.content) THEN "end"
        ELSE "continue"

OtherAgent(name) == IF name = "assistant" THEN "Chart Generator" ELSE "assistant"

\* Conditional edges in which "continue" leads back to the same agent.
AgentEdgesSelf(name) ==
    [continue |-> name, call_tool |-> "call_tool", end |-> END]

\* Conditional edges in which only "assistant" may end the run.
AgentEdgesOneEnd(name) ==
    [continue |-> OtherAgent(name), call_tool |-> "call_tool",
     end |-> IF name = "assistant" THEN END ELSE "assistant"]

\* Conditional edges in which "continue" leads to the tool node.
AgentEdgesToolOnContinue(name) ==
    [continue |-> "call_tool", call_tool |-> "call_tool", end |-> END]

\* add_conditional_edges(name, router, {...}) of the two agents.
AgentEdges(name) ==
    [continue |-> OtherAgent(name), call_tool |-> "call_tool", end |-> END]

\* Edges of call_tool that lead to the agent that did not ask.
ToolEdgesSwapped == [a \in Agents |-> OtherAgent(a)]

\* add_conditional_edges("call_tool", lambda x: x["sender"], {...}).
ToolEdges == [a \in Agents |-> a]

\* A state update that overwrites the messages instead of adding to them.
ApplyUpdateReplace(state, update) ==
    [k \in (DOMAIN state) \cup (DOMAIN update) |->
        IF k \in DOMAIN update THEN update[k] ELSE state[k]]

\* AgentState: messages are joined with operator.add, sender is overwritten.
ApplyUpdate(state, update) ==
    [k \in (DOMAIN state) \cup (DOMAIN update) |->
        IF k = "messages" /\ k \in DOMAIN update /\ k \in DOMAIN state
        THEN state.messages \o update.messages
        ELSE IF k \in DOMAIN update THEN update[k] ELSE state[k]]

\* A limit test that lets one step too many through.
WithinLimitInclusive(n) == n <= recursion_limit

\* The loop of graph.stream takes a step only below the recursion limit.
WithinLimit(n) == n < recursion_limit

\* A limit test that never finds the limit reached.
LimitReachedLate(n) == n > recursion_limit

\* After recursion_limit steps an unfinished run is stopped with an error.
LimitReached(n) == n >= recursion_limit

-----------------------------------------------------------------------------
(* The run of graph.stream *)

VARIABLES
    state,    \* the AgentState: messages and, once an agent has run, sender
    next,     \* the node the graph runs next, or END
    status,   \* "running", "ended", "recursion_error" or "node_error"
    steps,    \* the number of steps taken
    stream,   \* what graph.stream has yielded: each node with its update
    log       \* the calls made so far: agent.invoke with its result, and
              \* tool_executor.invoke with its action and what it did

vars == <<state, next, status, steps, stream, log>>

\* A run whose entry point is the chart generator.
InitChartFirst ==
    /\ \E c \in InitialContents :
           state = [messages |-> << HumanMessage(c, NoKwargs, "None") >>]
    /\ next = "Chart Generator"
    /\ status = "running"
    /\ steps = 0
    /\ stream = <<>>
    /\ log = <<>>

\* graph.stream({"messages": [HumanMessage(content=...)]}, ...): no sender yet,
\* and the entry point is "assistant".
Init ==
    /\ \E c \in InitialContents :
           state = [messages |-> << HumanMessage(c, NoKwargs, "None") >>]
    /\ next = "assistant"
    /\ status = "running"
    /\ steps = 0
    /\ stream = <<>>
    /\ log = <<>>

\* One step of an agent node: the node's update is added to the state and the
\* router picks the edge to follow.
RunAgent(name, replies) ==
    /\ status = "running"
    /\ next = name
    /\ WithinLimit(steps)
    /\ \E result \in replies :
           LET update == agent_node(state, result, name)
               new == ApplyUpdate(state, update)
               dest == AgentEdges(name)[router(new)]
           IN  /\ state' = new
               /\ next' = dest
               /\ status' = IF dest = END THEN "ended" ELSE "running"
               /\ steps' = steps + 1
               /\ stream' = Append(stream, [node |-> name, update |-> update])
               /\ log' = Append(log, [kind |-> "agent", node |-> name,
                                      result |-> result])

research_node(replies) == RunAgent("assistant", replies)

chart_node(replies) == RunAgent("Chart Generator", replies)

\* One step of call_tool: an exception leaving tool_node ends the run; otherwise
\* the FunctionMessage is added and the edge keyed by sender is followed.
call_tool ==
    /\ status = "running"
    /\ next = "call_tool"
    /\ WithinLimit(steps)
    /\ \E outcome \in Outcomes :
           LET r == tool_node(state, outcome)
           IN  /\ log' = log \o r.calls
               /\ IF r.raised
                  THEN /\ status' = "node_error"
                       /\ UNCHANGED <<state, next, steps, stream>>
                  ELSE
                    LET new == ApplyUpdate(state, r.update)
                    IN  /\ state' = new
                        /\ next' = ToolEdges[new.sender]
                        /\ status' = "running"
                        /\ steps' = steps + 1
                        /\ stream' = Append(stream,
                                            [node |-> "call_tool", update |-> r.update])

\* The run has used up its steps without reaching END.
GraphRecursionError ==
    /\ status = "running"
    /\ next \in Nodes
    /\ LimitReached(steps)
    /\ status' = "recursion_error"
    /\ UNCHANGED <<state, next, steps, stream, log>>

\* Every reply and every tool outcome, for the first MaxSteps steps of a run.
Research ==
    /\ steps < MaxSteps
    /\ research_node(AgentReplies)

Chart ==
    /\ steps < MaxSteps
    /\ chart_node(AgentReplies)

CallTool ==
    /\ steps < MaxSteps
    /\ call_tool

Next == Research \/ Chart \/ CallTool

Spec == Init /\ [][Next]_vars

\* Whole runs, up to the recursion limit, of agents that call no tool.
LoopResearch ==
    /\ next = "assistant"
    /\ research_node(LoopReplies)

LoopChart ==
    /\ next = "Chart Generator"
    /\ chart_node(LoopReplies)

NextLoop == LoopResearch \/ LoopChart \/ GraphRecursionError

SpecLoop == Init /\ [][NextLoop]_vars

\* graph.stream runs the next node as long as there is one.
FairLoopSpec == SpecLoop /\ WF_vars(NextLoop)

-----------------------------------------------------------------------------
(* Properties *)

LastMessage == state.messages[Len(state.messages)]

HasCall(m) == "function_call" \in DOMAIN m.additional_kwargs

\* The message the i-th step of the run has produced, and the node that ran.
Said(i) == stream[i].update.messages[1]

Ran(i) == stream[i].node

\* The node that runs after the i-th step: the next one to be run when the
\* i-th step is the latest.
After(i) == IF i < Len(stream) THEN Ran(i + 1) ELSE next

\* C1: router is a function of the last message alone, with three outcomes:
\* "call_tool" when that message carries a function_call; otherwise "end" when
\* its content contains FINAL ANSWER; otherwise "continue".
C1_RouterThreeWay ==
    LET m == LastMessage
        r == router(state)
    IN  /\ r \in {"call_tool", "end", "continue"}
        /\ r = router([messages |-> <<m>>])
        /\ \A s \in Agents : r = router([messages |-> <<m>>, sender |-> s])
        /\ HasCall(m) => r = "call_tool"
        /\ (~HasCall(m) /\ Contains(FINAL_ANSWER, m.content)) => r = "end"
        /\ (~HasCall(m) /\ ~Contains(FINAL_ANSWER, m.content)) => r = "continue"
        /\ (stream # <<>> /\ Ran(Len(stream)) \in Agents)
               => next = AgentEdges(Ran(Len(stream)))[r]

\* An agent has answered FINAL ANSWER together with a function call, and the
\* router has chosen the tool.
C1_Witness ==
    /\ stream # <<>>
    /\ Ran(Len(stream)) \in Agents
    /\ HasCall(LastMessage)
    /\ Contains(FINAL_ANSWER, LastMessage.content)
    /\ next = "call_tool"

\* C2 as stated: once an agent's message contains FINAL ANSWER the run has
\* ended at that step, and no node runs after it.
C2_FinalAnswerStops ==
    \A i \in 1..Len(stream) :
        (Ran(i) \in Agents /\ Contains(FINAL_ANSWER, Said(i).content))
            => (i = Len(stream) /\ next = END /\ status = "ended")

\* C2, amended: once an agent's message contains FINAL ANSWER and carries no
\* function call, the run has ended at that step and no node runs after it.
C2_FinalAnswerWithoutCallStops ==
    \A i \in 1..Len(stream) :
        (Ran(i) \in Agents /\ ~HasCall(Said(i))
                           /\ Contains(FINAL_ANSWER, Said(i).content))
            => (i = Len(stream) /\ next = END /\ status = "ended")

\* The second agent has ended the run with FINAL ANSWER inside its text.
C2_Witness ==
    /\ Len(stream) >= 2
    /\ Ran(Len(stream)) = "Chart Generator"
    /\ ~HasCall(LastMessage)
    /\ Contains(FINAL_ANSWER, LastMessage.content)
    /\ ~StartsWith(FINAL_ANSWER, LastMessage.content)
    /\ status = "ended"

\* C3: after an agent's message with a function call the node that runs is
\* call_tool, and after call_tool has returned the node that runs is the agent
\* that asked, which is the value of sender; no other node runs in between.
C3_ToolReturnsToSender ==
    \A i \in 1..Len(stream) :
        /\ (Ran(i) \in Agents /\ HasCall(Said(i))) => After(i) = "call_tool"
        /\ Ran(i) = "call_tool" =>
               /\ i > 1
               /\ Ran(i - 1) \in Agents
               /\ HasCall(Said(i - 1))
               /\ After(i) = Ran(i - 1)
               /\ i = Len(stream) => state.sender = Ran(i - 1)

\* The chart generator has asked for a tool, the tool has run, and the chart
\* generator has taken the next turn.
C3_Witness ==
    /\ Len(stream) >= 4
    /\ Ran(2) = "Chart Generator"
    /\ HasCall(Said(2))
    /\ Ran(3) = "call_tool"
    /\ Ran(4) = "Chart Generator"

\* C4: when router returns "continue" after an agent's turn, the node that
\* runs after it is the other agent.
C4_ContinueHandsOver ==
    \A i \in 1..Len(stream) :
        (Ran(i) \in Agents /\ router([messages |-> <<Said(i)>>]) = "continue")
            => After(i) = OtherAgent(Ran(i))

\* The assistant has handed over to the chart generator and back.
C4_Witness ==
    /\ Len(stream) >= 3
    /\ Ran(1) = "assistant"
    /\ router([messages |-> <<Said(1)>>]) = "continue"
    /\ Ran(2) = "Chart Generator"
    /\ router([messages |-> <<Said(2)>>]) = "continue"
    /\ Ran(3) = "assistant"

\* C5 as stated: every run reaches END, the router having returned "end".
C5_EveryRunReachesEnd == <>(status = "ended" /\ next = END)

\* C5, amended: every run stops: within recursion_limit steps either the
\* router returns "end" and the graph reaches END, or the run is stopped with
\* an error.
C5_EveryRunStops == <>(status # "running" /\ steps <= recursion_limit)

\* A run in which no agent ever said FINAL ANSWER has been stopped at the limit.
C5_Witness ==
    /\ status = "recursion_error"
    /\ \A i \in 1..Len(stream) : ~Contains(FINAL_ANSWER, Said(i).content)

\* C6: a run takes at most recursion_limit steps; at the limit no node runs
\* any more, and a run stopped for recursion has taken exactly that many.
C6_AtMostLimitSteps ==
    /\ steps <= recursion_limit
    /\ Len(stream) = steps
    /\ steps = recursion_limit => ~ENABLED (LoopResearch \/ LoopChart)
    /\ status = "recursion_error" => (steps = recursion_limit /\ next \in Nodes)

\* A run has taken recursion_limit steps and has been stopped with the error.
C6_Witness ==
    /\ status = "recursion_error"
    /\ Len(stream) = recursion_limit
    /\ next \in Agents

C8_SenderIsLastAgent ==
    /\ stream = <<>> => "sender" \notin DOMAIN state
    /\ \A i \in 1..Len(stream) :
           IF Ran(i) \in Agents
           THEN stream[i].update.sender = Ran(i)
           ELSE "sender" \notin DOMAIN stream[i].update
    /\ \A i \in 1..Len(stream) :
           (Ran(i) \in Agents /\ \A j \in (i + 1)..Len(stream) : Ran(j) \notin Agents)
               => state.sender = Ran(i)

\* The tool has run for the chart generator, and sender still names it.
C8_Witness ==
    /\ Len(stream) >= 3
    /\ Ran(Len(stream)) = "call_tool"
    /\ Ran(Len(stream) - 1) = "Chart Generator"
    /\ state.sender = "Chart Generator"

\* C9: when the arguments of the function call cannot be deserialized, the
\* tool step does not abort the run.
C9_BadArgumentsDoNotAbort ==
    (/\ next = "call_tool"
     /\ HasCall(LastMessage)
     /\ ~json_loads(LastMessage.additional_kwargs.function_call.arguments).ok)
        => status # "node_error"

\* C10: each agent's "end" edge leads to END, no edge of call_tool does, and a
\* run is at END only after an agent's turn for which router returned "end".
C10_OnlyAgentsEnd ==
    /\ \A a \in Agents : AgentEdges(a)["end"] = END
    /\ \A a \in Agents : ToolEdges[a] # END
    /\ next = END <=> status = "ended"
    /\ next = END =>
           /\ stream # <<>>
           /\ Ran(Len(stream)) \in Agents
           /\ router(state) = "end"

\* The chart generator has ended a run in which a tool was called.
C10_Witness ==
    /\ next = END
    /\ Ran(Len(stream)) = "Chart Generator"
    /\ \E i \in 1..Len(stream) : Ran(i) = "call_tool"

\* C11: whenever call_tool is the node to run, and whenever it has run, the
\* last message before it carries a function_call, so the lookup of
\* additional_kwargs["function_call"] finds the key.
C11_ToolNodeFindsCall ==
    /\ next = "call_tool" =>
           /\ HasCall(LastMessage)
           /\ LastMessage = Said(Len(stream))
           /\ Ran(Len(stream)) \in Agents
    /\ \A i \in 1..Len(stream) :
           Ran(i) = "call_tool" => (i > 1 /\ HasCall(Said(i - 1)))

\* The tool node has run once and is about to run for a second request.
C11_Witness ==
    /\ next = "call_tool"
    /\ status = "running"
    /\ \E i \in 1..Len(stream) : Ran(i) = "call_tool"
    /\ HasCall(LastMessage)

\* The argument object of the function call that led to the j-th call logged.
ArgumentsOf(j) ==
    json_loads(log[j - 1].result.additional_kwargs.function_call.arguments).value

\* C12: the tool input is the value of __arg1 when the deserialized object has
\* that key and no other, and the whole object unchanged in every other case.
C12_ToolInput ==
    \A j \in 1..Len(log) :
        log[j].kind = "tool" =>
            /\ j > 1
            /\ log[j - 1].kind = "agent"
            /\ LET obj == ArgumentsOf(j)
                   tool_input == log[j].action.tool_input
               IN  IF DOMAIN obj = {"__arg1"}
                   THEN tool_input = [kind |-> "str", value |-> obj["__arg1"]]
                   ELSE tool_input = [kind |-> "dict", value |-> obj]

\* A tool has been called with an object whose single key is not __arg1.
C12_Witness ==
    \E j \in 2..Len(log) :
        /\ log[j].kind = "tool"
        /\ DOMAIN ArgumentsOf(j) = {"query"}
        /\ log[j].action.tool_input.kind = "dict"

C14_PythonReplAnswers ==
    \A j \in 1..Len(log) :
        (/\ log[j].kind = "tool"
         /\ log[j].action.tool = "python_repl"
         /\ log[j].action.tool_input.kind = "str") =>
            LET code == log[j].action.tool_input.value
                response == log[j].response
            IN  /\ ~log[j].raised
                /\ response # <<>>
                /\ IF log[j].outcome = "fail"
                   THEN /\ StartsWith(<<"Failed", "to", "execute.", "Error:">>, response)
                        /\ Len(response) = 5
                   ELSE /\ StartsWith(<<"Succesfully", "executed:", code>>, response)
                        /\ SubSeq(response, 4, 4) = <<"Stdout:">>
                        /\ Len(response) = 5

\* The code given to python_repl has raised, and the run goes on with the
\* error text as the tool's answer.
C14_Witness ==
    /\ status = "running"
    /\ stream # <<>>
    /\ Ran(Len(stream)) = "call_tool"
    /\ log[Len(log)].action.tool = "python_repl"
    /\ log[Len(log)].outcome = "fail"
    /\ Contains(<<"Failed", "to", "execute.">>, LastMessage.content)

\* C15: a step of an agent node adds the reply of the model: a FunctionMessage
\* as it is, any other reply as a HumanMessage with the node's name and the
\* reply's content and additional_kwargs, so that router decides as it would
\* on the reply itself.
C15_AgentNodeRetags ==
    [][(next \in Agents /\ stream' # stream) =>
          LET call == log'[Len(log')]
              result == call.result
              message == state'.messages[Len(state'.messages)]
          IN  /\ Len(log') = Len(log) + 1
              /\ call.kind = "agent"
              /\ call.node = next
              /\ Len(state'.messages) = Len(state.messages) + 1
              /\ IF result.type = "function"
                 THEN message = result
                 ELSE /\ message.type = "human"
                      /\ message.name = next
                      /\ message.content = result.content
                      /\ message.additional_kwargs = result.additional_kwargs
              /\ router(state') = router([messages |-> <<result>>])]_vars

\* The chart generator's reply with a function call has been added under the
\* node's name.
C15_Witness ==
    /\ log # <<>>
    /\ log[Len(log)].kind = "agent"
    /\ log[Len(log)].node = "Chart Generator"
    /\ HasCall(log[Len(log)].result)
    /\ LastMessage.name = "Chart Generator"
    /\ LastMessage.type = "human"
    /\ HasCall(LastMessage)

\* C16: the first node that runs is "assistant", and whenever call_tool is to
\* run or has run, sender is one of the two agents, for which the edge keyed
\* by sender is defined.
C16_SenderSetBeforeTool ==
    /\ steps = 0 => (next = "assistant" /\ "sender" \notin DOMAIN state)
    /\ stream # <<>> => Ran(1) = "assistant"
    /\ (next = "call_tool" \/ (stream # <<>> /\ Ran(Len(stream)) = "call_tool")) =>
           /\ "sender" \in DOMAIN state
           /\ state.sender \in Agents
           /\ state.sender \in DOMAIN ToolEdges
           /\ ToolEdges[state.sender] \in Agents

\* call_tool has run for the assistant and its edge has led back to it.
C16_Witness ==
    /\ Len(stream) = 2
    /\ Ran(1) = "assistant"
    /\ Ran(2) = "call_tool"
    /\ state.sender = "assistant"
    /\ next = "assistant"

\* C17: in a run that has reached END, the last message is the one the last
\* agent step added, it has no function_call and contains FINAL ANSWER, and
\* sender is the agent of that step.
C17_FinalState ==
    status = "ended" =>
        /\ next = END
        /\ stream # <<>>
        /\ Ran(Len(stream)) \in Agents
        /\ LastMessage = Said(Len(stream))
        /\ ~HasCall(LastMessage)
        /\ Contains(FINAL_ANSWER, LastMessage.content)
        /\ state.sender = Ran(Len(stream))
        /\ log[Len(log)].kind = "agent"

\* The assistant has ended the run right after a tool answered it.
C17_Witness ==
    /\ status = "ended"
    /\ Len(stream) >= 3
    /\ Ran(Len(stream)) = "assistant"
    /\ Ran(Len(stream) - 1) = "call_tool"
    /\ state.sender = "assistant"

====
